---- MODULE Spec2Model ----
(***************************************************************************)
(* Model of eth/tracers/native/prestate.go: the prestateTracer, an         *)
(* instruction observer that collects LOG1..LOG4 occurrences, a failure    *)
(* flag and a forced-stop reason, and serialises them in GetResult.        *)
(***************************************************************************)
EXTENDS Integers, Sequences, FiniteSets, TLC

(***************************************************************************)
(* Bounds of the model and constants of the program.                       *)
(***************************************************************************)
\* Number of calls made on one tracer in a behaviour.
MaxOps == 3

\* opcode == 0xfd
REVERT == 253
\* opcode > 0xa0
LOG0 == 160
\* opcode <= 0xa4
LOG4 == 164
\* i += 32 / end := i + 32
ChunkSize == 32

(***************************************************************************)
(* Values.                                                                 *)
(*                                                                         *)
(* A stack word (uint256.Int) is kept as three limbs, so that the          *)
(* conversions of line 89 are exact at their real widths:                  *)
(*     value = hi * 2^64 + b63 * 2^63 + lo,   0 <= lo < 2^63.              *)
(* An int64 is kept in two's complement: value = low63 - sign * 2^63.      *)
(***************************************************************************)
Word(h, b, l) == [hi |-> h, b63 |-> b, lo |-> l]

W(n) == Word(0, 0, n)

\* uint256.Int.Uint64(): the low 64 bits of the word.
Uint64(w) == [b63 |-> w.b63, lo |-> w.lo]

\* Int64, were a value of 2^63 and more clamped to 0 instead of wrapping.
Int64Clamped(u) == [sign |-> 0, low63 |-> IF u.b63 = 1 THEN 0 ELSE u.lo]

\* int64(u) of a uint64: the same 64 bits, read as two's complement.
Int64(u) == [sign |-> u.b63, low63 |-> u.lo]

IsNegative(i) == i.sign = 1

\* A Go error value: nil, two opaque errors (errors.New), and one whose
\* dynamic type encoding/json cannot encode.
Nil == "nil"

ErrA == "errA"

ErrB == "errB"

ErrU == "errUnencodable"

Errors == {Nil, ErrA, ErrB, ErrU}

RangeError == "offset or size must not be negative"

MarshalError == "json: unsupported type"

(***************************************************************************)
(* internal.GetMemoryCopyPadded(m, offset, size): the padded copy of       *)
(* m[offset, offset+size), or an error for a negative offset or size.      *)
(***************************************************************************)
GetMemoryCopyPadded(m, offset, size) ==
    IF IsNegative(offset) \/ IsNegative(size)
    THEN [data |-> << >>, err |-> RangeError]
    ELSE [data |-> [i \in 1..size.low63 |->
                       IF offset.low63 + i <= Len(m) THEN m[offset.low63 + i] ELSE 0],
          err  |-> Nil]

(***************************************************************************)
(* hex.EncodeToString and the chunking loop of OnOpcode (lines 94-103).    *)
(* A Go string is a sequence of one-character strings.                     *)
(***************************************************************************)
HexDigits == <<"0", "1", "2", "3", "4", "5", "6", "7",
               "8", "9", "a", "b", "c", "d", "e", "f">>

RECURSIVE EncodeToString(_)
EncodeToString(bytes) ==
    IF bytes = << >> THEN << >>
    ELSE <<HexDigits[(Head(bytes) \div 16) + 1], HexDigits[(Head(bytes) % 16) + 1]>>
         \o EncodeToString(Tail(bytes))

\* for i := 0; i < len(data); i += 32 { ... dataRes = append(dataRes, hexString) }
\* (i is the 0-based index of the source).
\* ChunkLoop, were the last chunk filled up with zero bytes to 32.
RECURSIVE ChunkLoopPadLast(_, _, _)
ChunkLoopPadLast(data, i, dataRes) ==
    IF ~(i < Len(data)) THEN dataRes
    ELSE LET end0     == i + ChunkSize
             end      == IF end0 > Len(data) THEN Len(data) ELSE end0
             slice    == SubSeq(data, i + 1, end) \o [k \in 1..(end0 - end) |-> 0]
             hexString == <<"0", "x">> \o EncodeToString(slice)
         IN ChunkLoopPadLast(data, i + ChunkSize, Append(dataRes, hexString))

RECURSIVE ChunkLoop(_, _, _)
ChunkLoop(data, i, dataRes) ==
    IF ~(i < Len(data)) THEN dataRes
    ELSE LET end0     == i + ChunkSize
             end      == IF end0 > Len(data) THEN Len(data) ELSE end0
             slice    == SubSeq(data, i + 1, end)
             hexString == <<"0", "x">> \o EncodeToString(slice)
         IN ChunkLoop(data, i + ChunkSize, Append(dataRes, hexString))

\* dataRes of lines 94-103: the 0x-prefixed hex strings of the 32-byte chunks.
EncodeData(data) == ChunkLoop(data, 0, << >>)

(***************************************************************************)
(* The execution context handed to OnOpcode (tracing.OpContext): the       *)
(* executing address, the stack (top of stack last, as StackData returns   *)
(* it) and the memory.                                                     *)
(***************************************************************************)
Scope(a, st, m) == [addr |-> a, stack |-> st, mem |-> m]

NoScope == Scope("", << >>, << >>)

Mem1 == <<66>>

Mem34 == [i \in 1..34 |-> i]

\* offset 0, size 1, topic 7 on memory [0x42]; one extra word below.
ScopeOne == Scope("0xAA", <<W(9), W(7), W(1), W(0)>>, Mem1)

\* offset 1, size 33 inside a 34-byte memory: two chunks.
ScopeTwoChunks == Scope("0xBB", <<W(8), W(33), W(1)>>, Mem34)

\* size 0: no data.
ScopeSizeZero == Scope("0xAA", <<W(7), W(0), W(5)>>, Mem1)

\* offset with bit 63 set: negative as an int64.
ScopeNegOffset == Scope("0xAA", <<W(7), W(1), Word(0, 1, 0)>>, Mem1)

\* size with bit 63 set: negative as an int64.
ScopeNegSize == Scope("0xBB", <<W(7), Word(0, 1, 5), W(0)>>, Mem1)

\* operands of 2^64 and more: only the low 64 bits are used.
ScopeWide == Scope("0xBB", <<W(3), Word(1, 0, 2), Word(2, 0, 0)>>, Mem1)

\* nothing on the stack, no memory.
ScopeEmpty == Scope("0xAA", << >>, << >>)

\* The instructions the host VM reports: <<opcode, scope>>.
Instructions ==
    ({161} \X {ScopeOne, ScopeTwoChunks, ScopeSizeZero, ScopeNegOffset,
               ScopeNegSize, ScopeWide})
    \cup ({164} \X {ScopeOne, ScopeNegSize})
    \cup ({160, 165} \X {ScopeOne})
    \cup ({REVERT} \X {ScopeOne, ScopeEmpty})
    \cup ({0} \X {ScopeEmpty})

(***************************************************************************)
(* State of one prestateTracer.                                            *)
(***************************************************************************)
VARIABLES
    pre,      \* t.pre: the events, in order
    isFail,   \* t.isFail
    reason,   \* t.reason
    result,   \* what the last GetResult returned
    hist,     \* the calls made so far, in order
    stopSt,   \* position of a Stop call that writes its fields one by one
    getSt     \* position and locals of a GetResult call that reads field by field

vars == <<pre, isFail, reason, result, hist, stopSt, getSt>>

tracer == <<pre, isFail, reason>>

conc == <<stopSt, getSt>>

Call(o, opc, sc, e) == [op |-> o, opcode |-> opc, scope |-> sc, err |-> e]

\* (json.RawMessage, error); report is << >> for a nil message.
NoResult == [called |-> FALSE, report |-> << >>, err |-> Nil]

StopIdle == [pc |-> "idle", err |-> Nil, wroteReason |-> FALSE, wroteFail |-> FALSE]

GetIdle == [pc |-> "idle", toRead |-> {}, pre |-> << >>, isFail |-> FALSE,
            reason |-> Nil, res |-> << >>]

\* t := &prestateTracer{pre: []event{}}
Init ==
    /\ pre = << >>
    /\ isFail = FALSE
    /\ reason = Nil
    /\ result = NoResult
    /\ hist = << >>
    /\ stopSt = StopIdle
    /\ getSt = GetIdle

(***************************************************************************)
(* OnOpcode.                                                               *)
(***************************************************************************)
\* IsLogFamily, were the lower bound inclusive (LOG0 taken for a member).
IsLogFamilyFromLog0(opcode) == opcode >= LOG0 /\ opcode <= LOG4

\* opcode > 0xa0 && opcode <= 0xa4
IsLogFamily(opcode) == opcode > LOG0 /\ opcode <= LOG4

\* LogOperands, were offset and size taken in the other order.
LogOperandsSwapped(scope) ==
    LET stackData == scope.stack
        stackLen  == Len(stackData)
    IN [caller  |-> scope.addr,
        offset  |-> stackData[stackLen - 1],
        size    |-> stackData[stackLen],
        topics0 |-> stackData[stackLen - 2]]

\* Lines 81-87: the operands read from the stack and the context.
LogOperands(scope) ==
    LET stackData == scope.stack
        stackLen  == Len(stackData)
    IN [caller  |-> scope.addr,
        offset  |-> stackData[stackLen],
        size    |-> stackData[stackLen - 1],
        topics0 |-> stackData[stackLen - 2]]

\* The indices of lines 85-87 are in range.
StackInRange(opcode, scope) == IsLogFamily(opcode) => Len(scope.stack) >= 3

\* Extract, were the copy always taken from the start of the memory.
ExtractFromStart(scope) ==
    LET o == LogOperands(scope)
    IN GetMemoryCopyPadded(scope.mem, Int64(Uint64(W(0))), Int64(Uint64(o.size)))

\* Line 89: the extraction, on the operands' low 64 bits read as int64.
Extract(scope) ==
    LET o == LogOperands(scope)
    IN GetMemoryCopyPadded(scope.mem, Int64(Uint64(o.offset)), Int64(Uint64(o.size)))

Event(addr, topics0, data) == [caller |-> addr, topics0 |-> topics0, data |-> data]

\* lookupLog, were it to skip an event that carries no data.
lookupLogSkipEmpty(p, addr, data, topics0) ==
    IF data = << >> THEN p ELSE Append(p, Event(addr, topics0, data))

\* lookupLog, were it to keep only the first of two identical events.
lookupLogDedup(p, addr, data, topics0) ==
    IF \E i \in 1..Len(p) : p[i] = Event(addr, topics0, data)
    THEN p
    ELSE Append(p, Event(addr, topics0, data))

\* t.pre = append(t.pre, event{addr, topics0, data})
lookupLog(p, addr, data, topics0) == Append(p, Event(addr, topics0, data))

\* OnOpcode, were it to stop capturing once the trace is marked failed.
OnOpcodeQuietAfterFail(opcode, scope) ==
    /\ StackInRange(opcode, scope)
    /\ IF opcode = REVERT
       THEN /\ isFail' = TRUE
            /\ UNCHANGED pre
       ELSE IF IsLogFamily(opcode) /\ ~isFail
       THEN LET o == LogOperands(scope)
                x == Extract(scope)
            IN IF x.err # Nil
               THEN UNCHANGED <<pre, isFail>>
               ELSE /\ pre' = lookupLog(pre, o.caller, EncodeData(x.data), o.topics0)
                    /\ UNCHANGED isFail
       ELSE UNCHANGED <<pre, isFail>>
    /\ UNCHANGED reason

\* OnOpcode, were a failed extraction to mark the trace failed.
OnOpcodeFailOnRangeError(opcode, scope) ==
    /\ StackInRange(opcode, scope)
    /\ IF opcode = REVERT
       THEN /\ isFail' = TRUE
            /\ UNCHANGED pre
       ELSE IF IsLogFamily(opcode)
       THEN LET o == LogOperands(scope)
                x == Extract(scope)
            IN IF x.err # Nil
               THEN /\ isFail' = TRUE
                    /\ UNCHANGED pre
               ELSE /\ pre' = lookupLog(pre, o.caller, EncodeData(x.data), o.topics0)
                    /\ UNCHANGED isFail
       ELSE UNCHANGED <<pre, isFail>>
    /\ UNCHANGED reason

\* OnOpcode, were the operands read from the stack before the opcode is tested.
OnOpcodeReadsStackFirst(opcode, scope) ==
    /\ Len(scope.stack) >= 3
    /\ IF opcode = REVERT
       THEN /\ isFail' = TRUE
            /\ UNCHANGED pre
       ELSE IF IsLogFamily(opcode)
       THEN LET o == LogOperands(scope)
                x == Extract(scope)
            IN IF x.err # Nil
               THEN UNCHANGED <<pre, isFail>>
               ELSE /\ pre' = lookupLog(pre, o.caller, EncodeData(x.data), o.topics0)
                    /\ UNCHANGED isFail
       ELSE UNCHANGED <<pre, isFail>>
    /\ UNCHANGED reason

OnOpcode(opcode, scope) ==
    /\ StackInRange(opcode, scope)
    /\ IF opcode = REVERT
       THEN /\ isFail' = TRUE
            /\ UNCHANGED pre
       ELSE IF IsLogFamily(opcode)
       THEN LET o == LogOperands(scope)
                x == Extract(scope)
            IN IF x.err # Nil
               THEN UNCHANGED <<pre, isFail>>
               ELSE /\ pre' = lookupLog(pre, o.caller, EncodeData(x.data), o.topics0)
                    /\ UNCHANGED isFail
       ELSE UNCHANGED <<pre, isFail>>
    /\ UNCHANGED reason

\* OnTxStart, were it to reset the failure flag for the new transaction.
OnTxStartResetsFail ==
    /\ isFail' = FALSE
    /\ UNCHANGED <<pre, reason>>

OnTxStart == UNCHANGED tracer

\* OnTxEnd, were it to clear the stop reason.
OnTxEndClearsReason ==
    /\ reason' = Nil
    /\ UNCHANGED <<pre, isFail>>

OnTxEnd == UNCHANGED tracer

(***************************************************************************)
(* Stop and GetResult.                                                     *)
(***************************************************************************)
\* Stop, were it to record the reason without marking the trace failed.
StopReasonOnly(err) ==
    /\ reason' = err
    /\ UNCHANGED <<pre, isFail>>

\* Stop, were it to keep the first reason it was given.
StopFirstWins(err) ==
    /\ reason' = IF reason = Nil THEN err ELSE reason
    /\ isFail' = TRUE
    /\ UNCHANGED pre

Stop(err) ==
    /\ reason' = err
    /\ isFail' = TRUE
    /\ UNCHANGED pre

\* encoding/json on the error interface value of the Reason field.
MarshalReason(r) == IF r = Nil THEN "null" ELSE "{}"

\* json.Marshal(struct{Event; IsFail; Reason}{p, f, r})
Marshal(p, f, r) ==
    IF r = ErrU
    THEN [res |-> << >>, err |-> MarshalError]
    ELSE [res |-> <<[event |-> p, isFail |-> f, reason |-> MarshalReason(r)]>>,
          err |-> Nil]

Returned(res, err) == [called |-> TRUE, report |-> res, err |-> err]

\* GetResult, were it to hand the events over and start afresh.
GetResultDrains ==
    /\ LET m == Marshal(pre, isFail, reason)
       IN result' = IF m.err # Nil
                    THEN Returned(<< >>, m.err)
                    ELSE Returned(m.res, reason)
    /\ pre' = << >>
    /\ UNCHANGED <<isFail, reason>>

\* GetResult, were it to return a nil error whenever encoding succeeds.
GetResultNilError ==
    /\ LET m == Marshal(pre, isFail, reason)
       IN result' = IF m.err # Nil
                    THEN Returned(<< >>, m.err)
                    ELSE Returned(m.res, Nil)
    /\ UNCHANGED tracer

GetResult ==
    /\ LET m == Marshal(pre, isFail, reason)
       IN result' = IF m.err # Nil
                    THEN Returned(<< >>, m.err)
                    ELSE Returned(m.res, reason)
    /\ UNCHANGED tracer

(***************************************************************************)
(* The tracer driven by one caller at a time: every call runs to its end   *)
(* before the next begins.                                                 *)
(***************************************************************************)
CanCall == Len(hist) < MaxOps

DoOnOpcode ==
    \E ins \in Instructions :
        /\ CanCall
        /\ OnOpcode(ins[1], ins[2])
        /\ hist' = Append(hist, Call("OnOpcode", ins[1], ins[2], Nil))
        /\ UNCHANGED <<result, conc>>

DoOnTxStart ==
    /\ CanCall
    /\ OnTxStart
    /\ hist' = Append(hist, Call("OnTxStart", 0, NoScope, Nil))
    /\ UNCHANGED <<result, conc>>

DoOnTxEnd ==
    /\ CanCall
    /\ OnTxEnd
    /\ hist' = Append(hist, Call("OnTxEnd", 0, NoScope, Nil))
    /\ UNCHANGED <<result, conc>>

DoStop ==
    \E err \in Errors :
        /\ CanCall
        /\ Stop(err)
        /\ hist' = Append(hist, Call("Stop", 0, NoScope, err))
        /\ UNCHANGED <<result, conc>>

DoGetResult ==
    /\ CanCall
    /\ GetResult
    /\ hist' = Append(hist, Call("GetResult", 0, NoScope, Nil))
    /\ UNCHANGED conc

Next ==
    \/ DoOnOpcode
    \/ DoOnTxStart
    \/ DoOnTxEnd
    \/ DoStop
    \/ DoGetResult

Spec == Init /\ [][Next]_vars

(***************************************************************************)
(* The tracer with Stop called from another goroutine than the one that    *)
(* runs OnOpcode and GetResult.  The code takes no lock and uses no atomic *)
(* operation, so Stop's two assignments (lines 132-133) and GetResult's    *)
(* reads of t.pre, t.isFail and t.reason (line 123) and of t.reason again  *)
(* (line 127) are separate steps; without synchronisation the two writes   *)
(* may become visible in either order, and Go does not order the three     *)
(* reads of the composite literal.                                         *)
(***************************************************************************)
ConcInstructions == {<<REVERT, ScopeEmpty>>, <<161, ScopeOne>>, <<161, ScopeNegSize>>}

ObserveStep ==
    \E ins \in ConcInstructions :
        /\ CanCall
        /\ getSt.pc = "idle"
        /\ OnOpcode(ins[1], ins[2])
        /\ hist' = Append(hist, Call("OnOpcode", ins[1], ins[2], Nil))
        /\ UNCHANGED <<result, conc>>

StopBegin ==
    \E err \in Errors :
        /\ CanCall
        /\ stopSt.pc = "idle"
        /\ stopSt' = [pc |-> "writing", err |-> err,
                      wroteReason |-> FALSE, wroteFail |-> FALSE]
        /\ hist' = Append(hist, Call("Stop", 0, NoScope, err))
        /\ UNCHANGED <<tracer, result, getSt>>

\* t.reason = err
StopWriteReason ==
    /\ stopSt.pc = "writing"
    /\ ~stopSt.wroteReason
    /\ reason' = stopSt.err
    /\ stopSt' = [stopSt EXCEPT !.wroteReason = TRUE]
    /\ UNCHANGED <<pre, isFail, result, hist, getSt>>

\* t.isFail = true
StopWriteFail ==
    /\ stopSt.pc = "writing"
    /\ ~stopSt.wroteFail
    /\ isFail' = TRUE
    /\ stopSt' = [stopSt EXCEPT !.wroteFail = TRUE]
    /\ UNCHANGED <<pre, reason, result, hist, getSt>>

StopReturn ==
    /\ stopSt.pc = "writing"
    /\ stopSt.wroteReason
    /\ stopSt.wroteFail
    /\ stopSt' = StopIdle
    /\ UNCHANGED <<tracer, result, hist, getSt>>

GetResultBegin ==
    /\ CanCall
    /\ getSt.pc = "idle"
    /\ getSt' = [GetIdle EXCEPT !.pc = "reading", !.toRead = {"pre", "isFail", "reason"}]
    /\ hist' = Append(hist, Call("GetResult", 0, NoScope, Nil))
    /\ UNCHANGED <<tracer, result, stopSt>>

\* One operand of struct{...}{t.pre, t.isFail, t.reason} is read.
GetResultRead ==
    \E f \in getSt.toRead :
        /\ getSt.pc = "reading"
        /\ getSt' = [getSt EXCEPT
                        !.toRead = @ \ {f},
                        !.pre    = IF f = "pre" THEN pre ELSE @,
                        !.isFail = IF f = "isFail" THEN isFail ELSE @,
                        !.reason = IF f = "reason" THEN reason ELSE @]
        /\ UNCHANGED <<tracer, result, hist, stopSt>>

\* res, err = json.Marshal(...); if err != nil { return nil, err }
GetResultMarshal ==
    /\ getSt.pc = "reading"
    /\ getSt.toRead = {}
    /\ LET m == Marshal(getSt.pre, getSt.isFail, getSt.reason)
       IN IF m.err # Nil
          THEN /\ result' = Returned(<< >>, m.err)
               /\ getSt' = GetIdle
          ELSE /\ getSt' = [getSt EXCEPT !.pc = "returning", !.res = m.res]
               /\ UNCHANGED result
    /\ UNCHANGED <<tracer, hist, stopSt>>

\* return json.RawMessage(res), t.reason
GetResultReturn ==
    /\ getSt.pc = "returning"
    /\ result' = Returned(getSt.res, reason)
    /\ getSt' = GetIdle
    /\ UNCHANGED <<tracer, hist, stopSt>>

NextConc ==
    \/ ObserveStep
    \/ StopBegin
    \/ StopWriteReason
    \/ StopWriteFail
    \/ StopReturn
    \/ GetResultBegin
    \/ GetResultRead
    \/ GetResultMarshal
    \/ GetResultReturn

SpecConc == Init /\ [][NextConc]_vars

(***************************************************************************)
(* One log-family instruction on a fresh tracer, its operands and memory   *)
(* drawn from wider sets: sizes on both sides of the chunk boundaries,     *)
(* offsets inside and beyond the memory, words with bit 63 set and words   *)
(* of 2^64 and more.                                                       *)
(***************************************************************************)
\* Largest low part of a size operand.
MaxSize == 66

Mem32 == [i \in 1..32 |-> 200 + i]

WideWords(lows) == {Word(h, b, l) : h \in 0..1, b \in 0..1, l \in lows}

\* Stack, bottom to top: topic, size, offset.
WideScopes ==
    {Scope("0xAA", <<W(7), sz, off>>, m) :
        sz \in WideWords(0..MaxSize), off \in WideWords({0, 1, 33}),
        m \in {<< >>, Mem1, Mem32, Mem34}}

ObserveOnce ==
    \E scope \in WideScopes :
        /\ hist = << >>
        /\ OnOpcode(162, scope)
        /\ hist' = <<Call("OnOpcode", 162, scope, Nil)>>
        /\ UNCHANGED <<result, conc>>

NextOnce == ObserveOnce

SpecOnce == Init /\ [][NextOnce]_vars

(***************************************************************************)
(* What the calls made so far amount to.                                   *)
(***************************************************************************)
LastOf(h) == h[Len(h)]

\* The step from this state to the next is one call, LastOf(hist').
IsCall == Len(hist') = Len(hist) + 1

\* Opcodes 0xa1..0xa4.
LogFamily == 161..164

IsLogCall(c) == c.op = "OnOpcode" /\ c.opcode \in LogFamily

IsFaultCall(c) == c.op = "OnOpcode" /\ c.opcode = 253

ExtractionFailed(c) == IsLogCall(c) /\ Extract(c.scope).err # Nil

ExtractionSucceeded(c) == IsLogCall(c) /\ Extract(c.scope).err = Nil

\* The event a log-family instruction with these operands stands for.
ExpectedEvent(scope) ==
    LET o == LogOperands(scope)
    IN [caller |-> o.caller, topics0 |-> o.topics0,
        data |-> EncodeData(Extract(scope).data)]

Count(h, P(_)) == Cardinality({i \in 1..Len(h) : P(h[i])})

StopCalls(h) == SelectSeq(h, LAMBDA c : c.op = "Stop")

FaultSeen(h) == \E i \in 1..Len(h) : IsFaultCall(h[i])

\* The events of the instructions of h whose extraction succeeded, in order.
RECURSIVE ExpectedEvents(_)
ExpectedEvents(h) ==
    IF h = << >> THEN << >>
    ELSE LET front == ExpectedEvents(SubSeq(h, 1, Len(h) - 1))
         IN IF ExtractionSucceeded(LastOf(h))
            THEN Append(front, ExpectedEvent(LastOf(h).scope))
            ELSE front

IsPrefix(s, t) == Len(s) <= Len(t) /\ SubSeq(t, 1, Len(s)) = s

GotReport == hist # << >> /\ LastOf(hist).op = "GetResult" /\ result.report # << >>

(***************************************************************************)
(* C1. The report GetResult returns holds as many events as log-family     *)
(* instructions (0xa1..0xa4) were observed, less those whose extraction    *)
(* failed, whatever Stop calls came in between; an instruction of size 0   *)
(* counts as one event.                                                    *)
(***************************************************************************)
C1_EventCount ==
    LET observed == Count(hist, IsLogCall)
        failed   == Count(hist, ExtractionFailed)
    IN /\ Len(pre) = observed - failed
       /\ GotReport => Len(result.report[1].event) = observed - failed

C1_Witness ==
    /\ GotReport
    /\ Len(hist) = 3
    /\ ExtractionSucceeded(hist[1]) /\ hist[1].scope = ScopeSizeZero
    /\ ExtractionFailed(hist[2])
    /\ Len(result.report[1].event) = 1

(***************************************************************************)
(* C2. When encoding succeeds GetResult returns a report, never a nil      *)
(* message, with all the events, the current isFail and the current        *)
(* reason (null exactly when it is nil), and its error is the current      *)
(* reason: non-nil exactly when the last Stop was given a non-nil reason,  *)
(* nil when no Stop was called (a failure through REVERT only).            *)
(***************************************************************************)
C2_GetResult ==
    LET stops == StopCalls(hist)
    IN (hist # << >> /\ LastOf(hist).op = "GetResult" /\ reason # ErrU) =>
          /\ result.report # << >>
          /\ result.report[1].event = pre
          /\ result.report[1].isFail = isFail
          /\ (result.report[1].reason = "null") <=> (reason = Nil)
          /\ result.err = reason
          /\ (result.err # Nil) <=> (stops # << >> /\ LastOf(stops).err # Nil)
          /\ (stops = << >> /\ FaultSeen(hist)) => (result.err = Nil /\ result.report[1].isFail)

C2_Witness ==
    /\ GotReport
    /\ Len(hist) = 3
    /\ ExtractionSucceeded(hist[1])
    /\ hist[2] = Call("Stop", 0, NoScope, ErrA)
    /\ result.err = ErrA
    /\ result.report[1].reason = "{}"
    /\ result.report[1].isFail
    /\ Len(result.report[1].event) = 1

(***************************************************************************)
(* C3. isFail is monotonic: no call turns it from true to false.           *)
(***************************************************************************)
C3_FailedMonotonic == [][isFail => isFail']_vars

C3_Witness ==
    /\ Len(hist) = 3
    /\ IsFaultCall(hist[1])
    /\ hist[2].op = "OnTxStart"
    /\ hist[3].op = "GetResult"
    /\ isFail

(***************************************************************************)
(* C4. After REVERT was observed, a log-family instruction whose           *)
(* extraction succeeds is still appended as an event, and isFail stays     *)
(* true.                                                                   *)
(***************************************************************************)
C4_CaptureAfterFault ==
    [][(FaultSeen(hist) /\ IsCall /\ ExtractionSucceeded(LastOf(hist')))
          => /\ pre' = Append(pre, ExpectedEvent(LastOf(hist').scope))
             /\ isFail /\ isFail']_vars

C4_Witness ==
    /\ Len(hist) = 2
    /\ IsFaultCall(hist[1])
    /\ ExtractionSucceeded(hist[2])
    /\ pre = <<ExpectedEvent(hist[2].scope)>>
    /\ isFail

(***************************************************************************)
(* C5. A forced stop is not bypassed by later work: a log-family           *)
(* instruction whose OnOpcode call begins after a Stop call has returned   *)
(* appends no event.                                                       *)
(***************************************************************************)
C5_StopSuppressesCapture ==
    [][(StopCalls(hist) # << >> /\ IsCall /\ IsLogCall(LastOf(hist')))
          => pre' = pre]_vars

(***************************************************************************)
(* C6. Stop may run concurrently with OnOpcode and GetResult: isFail and   *)
(* reason are written and read as one unit, so no report shows a non-null  *)
(* reason together with isFail = false.                                    *)
(***************************************************************************)
C6_NoTornReport ==
    result.report # << >> =>
        ~(result.report[1].reason # "null" /\ ~result.report[1].isFail)

(***************************************************************************)
(* C7. After Stop(reasonA) and then Stop(reasonB), with OnOpcode calls     *)
(* anywhere around them, reason is reasonB and isFail is true: the last    *)
(* Stop call decides the reason.                                           *)
(***************************************************************************)
C7_LastStopWins ==
    LET stops == StopCalls(hist)
    IN stops # << >> => (reason = LastOf(stops).err /\ isFail)

C7_Witness ==
    /\ Len(hist) = 3
    /\ hist[1] = Call("Stop", 0, NoScope, ErrA)
    /\ hist[2] = Call("Stop", 0, NoScope, ErrB)
    /\ ExtractionSucceeded(hist[3])
    /\ reason = ErrB
    /\ isFail

(***************************************************************************)
(* C8. As claimed: once reason is set, no later call changes it.           *)
(***************************************************************************)
C8_ReasonImmutable == [][reason # Nil => reason' = reason]_vars

(***************************************************************************)
(* C8, amended. reason changes only in Stop: once set, no OnOpcode,        *)
(* OnTxStart, OnTxEnd or GetResult call changes it, and a later Stop call  *)
(* replaces it by the reason that call was given.                          *)
(***************************************************************************)
C8_ReasonChangedOnlyByStop ==
    [][/\ (IsCall /\ LastOf(hist').op # "Stop") => reason' = reason
       /\ (IsCall /\ LastOf(hist').op = "Stop") => reason' = LastOf(hist').err
       /\ ~IsCall => reason' = reason]_vars

C8_Witness ==
    /\ Len(hist) = 3
    /\ hist[1] = Call("Stop", 0, NoScope, ErrA)
    /\ IsFaultCall(hist[2])
    /\ hist[3].op = "OnTxEnd"
    /\ reason = ErrA

(***************************************************************************)
(* C9. A log-family instruction whose extraction fails changes nothing:    *)
(* no event is appended and isFail and reason keep their values; the       *)
(* instructions after it are handled as usual, a successful one appending  *)
(* its event.                                                              *)
(***************************************************************************)
C9_ExtractionFailureIsLocal ==
    [][/\ (IsCall /\ ExtractionFailed(LastOf(hist')))
            => UNCHANGED <<pre, isFail, reason>>
       /\ (Count(hist, ExtractionFailed) > 0 /\ IsCall
             /\ ExtractionSucceeded(LastOf(hist')))
            => (pre' = Append(pre, ExpectedEvent(LastOf(hist').scope))
                /\ UNCHANGED <<isFail, reason>>)
       /\ (Count(hist, ExtractionFailed) > 0 /\ IsCall /\ IsFaultCall(LastOf(hist')))
            => (isFail' /\ UNCHANGED <<pre, reason>>)]_vars

C9_Witness ==
    /\ Len(hist) = 2
    /\ ExtractionFailed(hist[1])
    /\ ExtractionSucceeded(hist[2])
    /\ pre = <<ExpectedEvent(hist[2].scope)>>
    /\ ~isFail
    /\ reason = Nil

(***************************************************************************)
(* C10. The events are append-only and in the order of observation: each   *)
(* step leaves the earlier events as a prefix, and the events are exactly  *)
(* those of the instructions whose extraction succeeded, in the order they *)
(* were observed, identical ones included.                                 *)
(***************************************************************************)
C10_AppendOnlyInOrder ==
    [][/\ IsPrefix(pre, pre')
       /\ pre' = ExpectedEvents(hist')]_vars

C10_Witness ==
    /\ Len(pre) = 3
    /\ pre[1] = pre[2]
    /\ pre[3] # pre[2]
    /\ pre = ExpectedEvents(hist)

(***************************************************************************)
(* The outcome of a log-family instruction when its offset, size and topic *)
(* are the words at depths dOff, dSize and dTopic of the stack (depth 1 is *)
(* the top): whether the extraction fails, and the event otherwise.        *)
(***************************************************************************)
OutcomeAt(scope, dOff, dSize, dTopic) ==
    LET st == scope.stack
        n  == Len(st)
        x  == GetMemoryCopyPadded(scope.mem, Int64(Uint64(st[n + 1 - dOff])),
                                  Int64(Uint64(st[n + 1 - dSize])))
    IN [failed |-> x.err # Nil,
        event  |-> [caller |-> scope.addr, topics0 |-> st[n + 1 - dTopic],
                    data |-> EncodeData(x.data)]]

(***************************************************************************)
(* C11. As claimed: a log-family instruction takes its offset from the     *)
(* second word from the top of the stack, its size from the third and its  *)
(* topic from the fourth, and its caller from the context's address.       *)
(***************************************************************************)
C11_OperandsSecondThirdFourth ==
    [][(IsCall /\ IsLogCall(LastOf(hist')) /\ Len(LastOf(hist').scope.stack) >= 4)
          => LET out == OutcomeAt(LastOf(hist').scope, 2, 3, 4)
             IN pre' = IF out.failed THEN pre ELSE Append(pre, out.event)]_vars

(***************************************************************************)
(* C11, amended. A log-family instruction takes its offset from the top    *)
(* word of the stack, its size from the second word from the top and its   *)
(* topic from the third (three stack positions are read), and its caller   *)
(* from the context's address.                                             *)
(***************************************************************************)
C11_OperandsTopSecondThird ==
    [][(IsCall /\ IsLogCall(LastOf(hist')))
          => LET out == OutcomeAt(LastOf(hist').scope, 1, 2, 3)
             IN pre' = IF out.failed THEN pre ELSE Append(pre, out.event)]_vars

C11_Witness ==
    /\ Len(hist) = 1
    /\ hist[1] = Call("OnOpcode", 161, ScopeOne, Nil)
    /\ pre = <<[caller |-> "0xAA", topics0 |-> W(7),
                data |-> << <<"0", "x", "4", "2">> >>]>>

(***************************************************************************)
(* Reading an event's data back: the bytes a chunk "0x.." encodes, and the *)
(* bytes of a memory region whose positions beyond the memory are zero.    *)
(***************************************************************************)
HexValue(c) == CHOOSE k \in 0..15 : HexDigits[k + 1] = c

WellFormedChunk(chunk) ==
    /\ Len(chunk) >= 2
    /\ chunk[1] = "0" /\ chunk[2] = "x"
    /\ (Len(chunk) - 2) % 2 = 0
    /\ \A j \in 3..Len(chunk) : \E k \in 1..16 : HexDigits[k] = chunk[j]

DecodeChunk(chunk) ==
    [j \in 1..((Len(chunk) - 2) \div 2) |->
        16 * HexValue(chunk[2 * j + 1]) + HexValue(chunk[2 * j + 2])]

RECURSIVE DecodeAll(_)
DecodeAll(chunks) ==
    IF chunks = << >> THEN << >>
    ELSE DecodeChunk(Head(chunks)) \o DecodeAll(Tail(chunks))

PaddedByte(mem, pos) == IF pos < Len(mem) THEN mem[pos + 1] ELSE 0

Region(mem, from, size) == [i \in 1..size |-> PaddedByte(mem, from + i - 1)]

\* The single call of SpecOnce, and its operands: the top word and the one below.
OnceScope == hist[1].scope

OnceOffset == OnceScope.stack[Len(OnceScope.stack)]

OnceSize == OnceScope.stack[Len(OnceScope.stack) - 1]

(***************************************************************************)
(* C12. An appended event has ceil(size / 32) data chunks, size being the  *)
(* size handed to the extractor, whatever the length of the memory; every  *)
(* chunk but the last encodes 32 bytes, the last encodes the remaining     *)
(* 1..32 bytes with nothing added, and the k-th chunk encodes the k-th     *)
(* 32 bytes of the region.                                                 *)
(***************************************************************************)
C12_ChunkCount ==
    (hist # << >> /\ pre # << >>) =>
        LET data == pre[1].data
            size == OnceSize.lo
            n    == Len(data)
            bytesOf(k) == IF k < n THEN 32 ELSE size - 32 * (n - 1)
        IN /\ Len(pre) = 1
           /\ n = (size + 31) \div 32
           /\ \A k \in 1..n :
                /\ WellFormedChunk(data[k])
                /\ Len(data[k]) = 2 + 2 * bytesOf(k)
                /\ bytesOf(k) \in 1..32
                /\ DecodeChunk(data[k])
                      = Region(OnceScope.mem, OnceOffset.lo + 32 * (k - 1), bytesOf(k))

C12_Witness ==
    /\ hist # << >>
    /\ OnceSize = W(33)
    /\ OnceOffset = W(0)
    /\ OnceScope.mem = Mem1
    /\ Len(pre) = 1
    /\ Len(pre[1].data) = 2
    /\ Len(pre[1].data[1]) = 66
    /\ pre[1].data[2] = <<"0", "x", "0", "0">>

(***************************************************************************)
(* C13. With a non-negative offset and size, the bytes the data chunks     *)
(* encode, put together, are size bytes long and are the memory from       *)
(* offset to offset+size, reading zero at every position at or beyond the  *)
(* memory's length.                                                        *)
(***************************************************************************)
C13_PaddedRegion ==
    (hist # << >> /\ OnceOffset.hi = 0 /\ OnceOffset.b63 = 0
                  /\ OnceSize.hi = 0 /\ OnceSize.b63 = 0) =>
        /\ Len(pre) = 1
        /\ Len(DecodeAll(pre[1].data)) = OnceSize.lo
        /\ DecodeAll(pre[1].data) = Region(OnceScope.mem, OnceOffset.lo, OnceSize.lo)

C13_Witness ==
    /\ hist # << >>
    /\ OnceOffset = W(0)
    /\ OnceSize = W(64)
    /\ OnceScope.mem = Mem32
    /\ Len(pre) = 1
    /\ DecodeAll(pre[1].data) = Mem32 \o [i \in 1..32 |-> 0]

(***************************************************************************)
(* C17. The extractor is handed the low 64 bits of the offset and size     *)
(* words, read as signed: the event is dropped exactly when bit 63 of the  *)
(* offset or of the size is set, and a word of 2^64 or more whose low 64   *)
(* bits are below 2^63 is used with its low 64 bits as its value.          *)
(***************************************************************************)
C17_TruncatedOperands ==
    hist # << >> =>
        /\ (pre = << >>) <=> (OnceOffset.b63 = 1 \/ OnceSize.b63 = 1)
        /\ pre # << >> =>
              /\ Len(pre) = 1
              /\ pre[1].caller = OnceScope.addr
              /\ pre[1].topics0 = OnceScope.stack[Len(OnceScope.stack) - 2]
              /\ DecodeAll(pre[1].data)
                    = Region(OnceScope.mem, OnceOffset.lo, OnceSize.lo)

C17_Witness ==
    /\ hist # << >>
    /\ OnceOffset = Word(1, 0, 0)
    /\ OnceSize = Word(1, 0, 2)
    /\ OnceScope.mem = Mem1
    /\ pre = <<[caller |-> "0xAA", topics0 |-> W(7),
                data |-> << <<"0", "x", "4", "2", "0", "0">> >>]>>

(***************************************************************************)
(* C14. OnOpcode with an opcode that is neither 0xfd nor one of            *)
(* 0xa1..0xa4 (0xa0 included) changes nothing: the events, isFail and      *)
(* reason stay as they were.                                               *)
(***************************************************************************)
C14_OtherOpcodesNoOp ==
    [][(IsCall /\ LastOf(hist').op = "OnOpcode"
          /\ LastOf(hist').opcode # 253 /\ LastOf(hist').opcode \notin LogFamily)
          => UNCHANGED <<pre, isFail, reason>>]_vars

C14_Witness ==
    /\ Len(hist) = 3
    /\ ExtractionSucceeded(hist[1])
    /\ hist[2] = Call("Stop", 0, NoScope, ErrA)
    /\ hist[3] = Call("OnOpcode", 160, ScopeOne, Nil)
    /\ Len(pre) = 1
    /\ isFail
    /\ reason = ErrA

(***************************************************************************)
(* C15. The events change only in OnOpcode, reason only in Stop, isFail    *)
(* only in OnOpcode on 0xfd and in Stop; OnTxStart, OnTxEnd and GetResult  *)
(* leave all three alone, so a GetResult call right after another returns  *)
(* the same report and error.                                              *)
(***************************************************************************)
C15_WhoChangesWhat ==
    [][/\ pre' # pre => (IsCall /\ LastOf(hist').op = "OnOpcode")
       /\ reason' # reason => (IsCall /\ LastOf(hist').op = "Stop")
       /\ isFail' # isFail =>
             (IsCall /\ (IsFaultCall(LastOf(hist')) \/ LastOf(hist').op = "Stop"))
       /\ (IsCall /\ LastOf(hist').op \in {"OnTxStart", "OnTxEnd", "GetResult"})
             => UNCHANGED <<pre, isFail, reason>>
       /\ (hist # << >> /\ LastOf(hist).op = "GetResult"
             /\ IsCall /\ LastOf(hist').op = "GetResult")
             => result' = result]_vars

C15_Witness ==
    /\ Len(hist) = 3
    /\ ExtractionSucceeded(hist[1])
    /\ hist[2].op = "GetResult"
    /\ hist[3].op = "GetResult"
    /\ result.report # << >>
    /\ result.report[1].event = pre
    /\ Len(pre) = 1

(***************************************************************************)
(* C16. OnOpcode on 0xfd sets isFail and returns: it appends no event,     *)
(* leaves the events and reason as they were, and reads neither the stack  *)
(* nor the memory, so it goes through on an empty stack as on any other.   *)
(***************************************************************************)
FaultOnEmptyStack ==
    /\ OnOpcode(253, ScopeEmpty)
    /\ hist' = Append(hist, Call("OnOpcode", 253, ScopeEmpty, Nil))
    /\ UNCHANGED <<result, conc>>

C16_FaultOnlySetsFailed ==
    [][/\ (IsCall /\ IsFaultCall(LastOf(hist')))
            => (isFail' /\ UNCHANGED <<pre, reason>>)
       /\ CanCall => ENABLED FaultOnEmptyStack]_vars

C16_Witness ==
    /\ Len(hist) = 3
    /\ ExtractionSucceeded(hist[1])
    /\ hist[2] = Call("Stop", 0, NoScope, ErrB)
    /\ hist[3] = Call("OnOpcode", 253, ScopeEmpty, Nil)
    /\ Len(pre) = 1
    /\ reason = ErrB
    /\ isFail

(***************************************************************************)
(* C18. With every call taken as one step: a non-nil reason comes with     *)
(* isFail = true in every reachable state, and before any call the events  *)
(* are empty, isFail is false and reason is nil.                           *)
(***************************************************************************)
C18_ReasonImpliesFailed ==
    /\ reason # Nil => isFail
    /\ hist = << >> => (pre = << >> /\ ~isFail /\ reason = Nil)

C18_Witness ==
    /\ Len(hist) = 2
    /\ ExtractionSucceeded(hist[1])
    /\ hist[2] = Call("Stop", 0, NoScope, ErrA)
    /\ reason = ErrA
    /\ isFail

(***************************************************************************)
(* C19. In one GetResult call the reason in the report and the error       *)
(* returned with it are the same value, also when Stop runs at the same    *)
(* time.                                                                   *)
(***************************************************************************)
C19_ReportReasonIsReturnedError ==
    (result.called /\ result.report # << >>) =>
        result.report[1].reason = MarshalReason(result.err)

====
